---- MODULE Spec2Model ----
(***************************************************************************)
(* A model of the meeting-minutes generator: the speaker fusion engine     *)
(* (src/src/diarization.py), the structured-minutes extractor              *)
(* (src/src/summarizer.py) and the records they build (src/src/schemas.py).*)
(*                                                                         *)
(* Times are whole ticks (the code's float seconds only enter through      *)
(* min, max, subtraction and comparison, which the integers keep).         *)
(* Python objects live in `heap`; a list of segments is a sequence of      *)
(* references into it, so that aliasing and in-place mutation are visible. *)
(***************************************************************************)
EXTENDS Integers, Sequences, FiniteSets, TLC

VARIABLES
    pc,       \* position of the caller: which call has been made
    heap,     \* the TranscriptSegment objects, by reference (index)
    segs,     \* the caller's list transcript_segments: references into heap
    turns,    \* speaker_segments: the (start, end, speaker) tuples
    ret,      \* the list apply_diarization returned
    before,   \* history: the caller's list and the heap as they were at the call
    qseg,     \* the (start, end) range handed to _find_speaker
    found,    \* the label _find_speaker returned
    client,   \* MeetingSummarizer.client: TRUE when a backend client was built
    completion, \* what the backend call did: raised, or the text it returned
    outcome,  \* what summarize did: the exception it let out, or its minutes
    arg,      \* the input of the one call a single-call specification makes
    result,   \* what the last call did: the exception it let out, or its value
    db,       \* the meetings table: the stored row of each id in use
    files,    \* the audio files present on disk, by path
    session   \* the wizard's session state: the meeting being edited

dvars == <<heap, segs, turns, ret, before, qseg, found>>

svars == <<client, completion, outcome>>

cvars == <<arg, result>>

stvars == <<db, files, session>>

vars == <<pc, dvars, svars, cvars, stvars>>

----------------------------------------------------------------------------
(* Bounds of the model. *)

MaxTime == 2
MaxSegs == 2
MaxTurns == 2
MaxTokens == 3
MaxItems == 1
MaxOver == 1

Max(a, b) == IF a >= b THEN a ELSE b
Min(a, b) == IF a <= b THEN a ELSE b

SeqsUpTo(S, n) == UNION {[1..k -> S] : k \in 0..n}

Times == 0..MaxTime

----------------------------------------------------------------------------
(* Data: src/src/schemas.py and the tuples of src/src/diarization.py. *)

DefaultSpeaker == "Speaker 1"

\* Labels a segment may carry before fusion: the transcriber's default and a
\* name given by an earlier rename.
SegLabels == {"Speaker 1", "Alice"}

\* Labels of turns: the fallback's two labels (pyannote's are "Speaker <id>").
TurnLabels == {"Speaker 1", "Speaker 2"}

\* AudioTranscriber._calculate_confidence, its duration rule: a segment shorter
\* than half a second (here: of no tick) scores 0.7, any other 0.95 (percent).
calculate_confidence(start, end) == IF end - start < 1 THEN 70 ELSE 95

\* The text of the i-th segment of a transcript.
TextOf(i) == <<"first", "second", "third", "fourth">>[i]

\* TranscriptSegment
Segment(start, end, text, speaker, confidence) ==
    [start |-> start, end |-> end, text |-> text, speaker |-> speaker,
     confidence |-> confidence]

\* A speaker turn (start, end, speaker), start < end.
Turn(start, end, label) == [start |-> start, end |-> end, label |-> label]

AllTurns == {Turn(s, e, l) : s \in Times, e \in Times, l \in TurnLabels}

TurnSet == {t \in AllTurns : t.start < t.end}

\* Turn sequences in any order, overlapping or not.
TurnSeqs == SeqsUpTo(TurnSet, MaxTurns)

\* Turn sequences in chronological order without overlap (what the fallback
\* and a single-speaker-at-a-time diarization produce).
ChainTurnSeqs ==
    {ts \in TurnSeqs : \A i \in 1..(Len(ts) - 1) : ts[i].end <= ts[i + 1].start}

\* The (start, end, speaker) of the segments of a transcript: end >= start,
\* chronological, one after the other.
SegShape == {x \in Times \X Times \X SegLabels : x[1] <= x[2]}

TranscriptShapes ==
    {ss \in SeqsUpTo(SegShape, MaxSegs) :
        \A i \in 1..(Len(ss) - 1) : ss[i][2] <= ss[i + 1][1]}

\* The heap holding the segments of a transcript, the i-th at reference i.
HeapOf(ss) ==
    [i \in 1..Len(ss) |->
        Segment(ss[i][1], ss[i][2], TextOf(i), ss[i][3],
                calculate_confidence(ss[i][1], ss[i][2]))]

----------------------------------------------------------------------------
(* SpeakerDiarizer._find_speaker *)

\* overlap = max(0, min(end, sp_end) - max(start, sp_start))
Overlap(start, end, t) == Max(0, Min(end, t.end) - Max(start, t.start))

\* The test of the loop: does this turn replace the best one so far?
BetterMutGe(overlap, max_overlap) == overlap >= max_overlap

BetterMutAny(overlap, max_overlap) == overlap > 0

Better(overlap, max_overlap) == overlap > max_overlap

RECURSIVE FindSpeakerLoop(_, _, _, _, _, _)
FindSpeakerLoop(start, end, ts, i, max_overlap, best_speaker) ==
    IF i > Len(ts) THEN best_speaker
    ELSE LET overlap == Overlap(start, end, ts[i])
         IN  IF Better(overlap, max_overlap)
             THEN FindSpeakerLoop(start, end, ts, i + 1, overlap, ts[i].label)
             ELSE FindSpeakerLoop(start, end, ts, i + 1, max_overlap, best_speaker)

\* best_speaker preset to the first turn's label instead of "Speaker 1".
FindSpeakerFromFirst(start, end, ts) ==
    FindSpeakerLoop(start, end, ts, 1, 0,
                    IF ts = <<>> THEN DefaultSpeaker ELSE ts[1].label)

find_speaker(start, end, ts) ==
    FindSpeakerLoop(start, end, ts, 1, 0, DefaultSpeaker)

----------------------------------------------------------------------------
(* SpeakerDiarizer.apply_diarization *)

\* Mutants of the loop body: the label written into the caller's own object,
\* and a segment rebuilt from start, end, text and speaker alone.
UpdateInPlace(h, ref, speaker) ==
    [heap |-> [h EXCEPT ![ref].speaker = speaker], ref |-> ref]

UpdateRebuilt(h, ref, speaker) ==
    [heap |-> Append(h, Segment(h[ref].start, h[ref].end, h[ref].text, speaker, 100)),
     ref |-> Len(h) + 1]

\* updated_seg = seg.model_copy(); updated_seg.speaker = speaker
\* A new object, equal to the old one but for its speaker.
UpdateCopy(h, ref, speaker) ==
    [heap |-> Append(h, [h[ref] EXCEPT !.speaker = speaker]), ref |-> Len(h) + 1]

RECURSIVE ApplyLoop(_, _, _, _, _)
ApplyLoop(h, ss, ts, i, updated_segments) ==
    IF i > Len(ss) THEN [heap |-> h, ret |-> updated_segments]
    ELSE LET seg == h[ss[i]]
             speaker == find_speaker(seg.start, seg.end, ts)
             u == UpdateCopy(h, ss[i], speaker)
         IN  ApplyLoop(u.heap, ss, ts, i + 1, Append(updated_segments, u.ref))

\* Mutant: no early return for an empty turn sequence.
ApplyAlwaysLoop(h, ss, ts) == ApplyLoop(h, ss, ts, 1, <<>>)

apply_diarization(h, ss, ts) ==
    IF ts = <<>> THEN [heap |-> h, ret |-> ss]
    ELSE ApplyLoop(h, ss, ts, 1, <<>>)

----------------------------------------------------------------------------
(* Records of the minutes: src/src/schemas.py. *)

SummaryCap == 8

\* ActionItem.confidence defaults to 1.0 (percent).
DefaultConfidence == 100

None == "<None>"

\* A key a JSON object does not carry.
ABSENT == "<absent>"

\* The validator of MeetingMinutes.summary: a longer list is cut, not refused.
SummaryNoCap(v) == v

summary_max_length(v) == IF Len(v) > SummaryCap THEN SubSeq(v, 1, SummaryCap) ELSE v

\* MeetingMinutes(...): the validator runs on construction.
MeetingMinutes(summary, decisions, action_items, risks, notes) ==
    [summary |-> summary_max_length(summary), decisions |-> decisions,
     action_items |-> action_items, risks |-> risks, notes |-> notes]

\* MeetingMinutes()
EmptyMinutes == MeetingMinutes(<<>>, <<>>, <<>>, <<>>, None)

\* ActionItem(**item): owner and task are required strings (an empty string is
\* a string); due_date, confidence and status take their defaults when the
\* object has no such key.
ActionItemAccepts(item) == item.owner # ABSENT /\ item.task # ABSENT

\* The value of a key of a JSON object or keyword dictionary, or a default.
Get(item, key, default) == IF key \in DOMAIN item THEN item[key] ELSE default

\* An ActionItem whose confidence defaults to nothing known (0) and whose
\* status defaults to "Pending".
ActionItemOtherDefaults(item) ==
    [owner |-> item.owner, task |-> item.task,
     due_date |-> Get(item, "due_date", None),
     confidence |-> Get(item, "confidence", 0),
     status |-> Get(item, "status", "Pending")]

ActionItem(item) ==
    [owner |-> item.owner, task |-> item.task,
     due_date |-> Get(item, "due_date", None),
     confidence |-> Get(item, "confidence", DefaultConfidence),
     status |-> Get(item, "status", "Open")]

----------------------------------------------------------------------------
(* What the text-generation backend may return.                            *)
(* A response is a sequence of tokens, white space between them left out:  *)
(*   "FJ"  the fence ```json      "F"  the fence ```                       *)
(*   "J"   a JSON text (its value is the response's payload)               *)
(*   "P"   prose, no JSON         "Jcut"  a JSON text short of its end     *)
(* and trailing_ws tells whether the response ends in white space.         *)

TokenKinds == {"FJ", "F", "J", "P"}

\* The action item objects of a payload: a good one, and ones short of a
\* field or with an empty one.
BareItemObjects ==
    {it \in [owner : {ABSENT, "", "Ann"}, task : {ABSENT, "", "Review"}] :
        it.owner = "Ann" \/ it.task = "Review"}

\* An object that carries every key of an ActionItem.
FullItemObject ==
    [owner |-> "Bob", task |-> "Ship", due_date |-> "Friday",
     confidence |-> 90, status |-> "Done"]

ItemObjects == BareItemObjects \cup {FullItemObject}

\* The summary bullets are numbered, so that their order shows.
Bullets(n) == [i \in 1..n |-> i]

SummaryLengths == 0..(SummaryCap + MaxOver)

Sections ==
    {[decisions |-> <<>>, risks |-> <<>>, notes |-> ABSENT],
     [decisions |-> <<"d1">>, risks |-> <<"r1">>, notes |-> "n"]}

Payload(kind, summary, items, sec) ==
    [kind |-> kind, summary |-> summary, action_items |-> items,
     decisions |-> sec.decisions, risks |-> sec.risks, notes |-> sec.notes]

BareSection == [decisions |-> <<>>, risks |-> <<>>, notes |-> ABSENT]

\* JSON objects with string lists; a JSON value that is no object ("array");
\* an object whose summary is no list of strings ("badtype").
Payloads ==
    {Payload("object", Bullets(n), items, sec) :
        n \in SummaryLengths, items \in SeqsUpTo(ItemObjects, MaxItems),
        sec \in Sections}
    \cup {Payload("array", <<>>, <<>>, BareSection),
          Payload("badtype", <<>>, <<>>, BareSection)}

NoPayload == Payload("none", <<>>, <<>>, BareSection)

Last(toks) == IF toks = <<>> THEN "" ELSE toks[Len(toks)]

\* One payload per response, none when it holds no JSON text; trailing white
\* space matters after a JSON text only.
Response ==
    {r \in [tokens : SeqsUpTo(TokenKinds, MaxTokens), trailing_ws : BOOLEAN,
            payload : Payloads \cup {NoPayload}] :
        /\ (r.payload = NoPayload) <=> (\A i \in 1..Len(r.tokens) : r.tokens[i] # "J")
        /\ r.trailing_ws => Last(r.tokens) = "J"}

NoResponse == [tokens |-> <<>>, trailing_ws |-> FALSE, payload |-> NoPayload]

\* _get_completion: the call raises, or returns a text.
Completions ==
    {[raises |-> TRUE, response |-> NoResponse]}
    \cup {[raises |-> FALSE, response |-> r] : r \in Response}

NotCalled == [raises |-> FALSE, response |-> NoResponse]

----------------------------------------------------------------------------
(* MeetingSummarizer: src/src/summarizer.py. An operation returns          *)
(* [exc, val]: the exception it raised ("none": it returned val).          *)

Ok(v) == [exc |-> "none", val |-> v]

Raise(e, v) == [exc |-> e, val |-> v]

\* json.loads of a token sequence: a single JSON text parses.
json_loads(toks, payload) ==
    IF toks = <<"J">> THEN Ok(payload) ELSE Raise("JSONDecodeError", NoPayload)

\* action_items = [ActionItem(**item) for item in data.get("action_items", [])]
\* and MeetingMinutes(summary=data.get("summary", []), ...), with or without
\* notes=data.get("notes").
MinutesFromData(data, with_notes) ==
    IF data.kind # "object" /\ data.kind # "badtype"
    THEN Raise("AttributeError", EmptyMinutes)
    ELSE IF \E i \in 1..Len(data.action_items) : ~ActionItemAccepts(data.action_items[i])
    THEN Raise("ValidationError", EmptyMinutes)
    ELSE IF data.kind = "badtype"
    THEN Raise("ValidationError", EmptyMinutes)
    ELSE Ok(MeetingMinutes(
                data.summary,
                data.decisions,
                [i \in 1..Len(data.action_items) |-> ActionItem(data.action_items[i])],
                data.risks,
                IF with_notes /\ data.notes # ABSENT THEN data.notes ELSE None))

\* _validate_minutes
validate_minutes(minutes) ==
    LET cut == IF Len(minutes.summary) > SummaryCap
               THEN [minutes EXCEPT !.summary = SubSeq(minutes.summary, 1, SummaryCap)]
               ELSE minutes
    IN  IF \E i \in 1..Len(cut.action_items) :
             cut.action_items[i].owner = "" \/ cut.action_items[i].task = ""
        THEN Raise("ValueError", cut)
        ELSE Ok(cut)

\* str.find on tokens: the first index from `from` on of a token of `kinds`,
\* 0 when there is none.
Find(toks, kinds, from) ==
    LET hits == {i \in from..Len(toks) : toks[i] \in kinds}
    IN  IF hits = {} THEN 0 ELSE CHOOSE i \in hits : \A j \in hits : i <= j

\* response[json_start:-1], the slice taken when no closing fence is found:
\* the last character of the response is dropped. That is white space when the
\* response ends in it; otherwise the last token loses its end.
CutLast(toks, ws) ==
    IF toks = <<>> \/ ws THEN toks
    ELSE [toks EXCEPT ![Len(toks)] = IF @ = "J" THEN "Jcut" ELSE @]

\* response[json_start:json_end].strip() for the fence `open`.
FencedContent(toks, ws, open) ==
    LET json_start == Find(toks, open, 1) + 1
        json_end == Find(toks, {"F", "FJ"}, json_start)
    IN  IF json_end # 0 THEN SubSeq(toks, json_start, json_end - 1)
        ELSE CutLast(SubSeq(toks, json_start, Len(toks)), ws)

\* _extract_json_from_markdown
extract_json_from_markdown(response) ==
    LET toks == response.tokens
        json_str ==
            IF Find(toks, {"FJ"}, 1) # 0
            THEN FencedContent(toks, response.trailing_ws, {"FJ"})
            ELSE IF Find(toks, {"F"}, 1) # 0
            THEN FencedContent(toks, response.trailing_ws, {"F"})
            ELSE toks
        data == json_loads(json_str, response.payload)
        built == IF data.exc = "none" THEN MinutesFromData(data.val, FALSE)
                 ELSE Raise(data.exc, EmptyMinutes)
    IN  IF built.exc = "none" THEN Ok(built.val)
        ELSE Ok(EmptyMinutes)                      \* except Exception

\* _parse_response
parse_response(response) ==
    LET data == json_loads(response.tokens, response.payload)
        built == MinutesFromData(data.val, TRUE)
        checked == IF built.exc = "none" THEN validate_minutes(built.val) ELSE built
    IN  IF data.exc = "JSONDecodeError"
        THEN extract_json_from_markdown(response)  \* except json.JSONDecodeError
        ELSE IF checked.exc = "none" THEN Ok(checked.val)
        ELSE Ok(EmptyMinutes)                      \* except Exception

\* The json.loads calls of one _parse_response, in the order they are made:
\* which of the code's three call sites made the call, and on what text.
Attempt(stage, text) == [stage |-> stage, text |-> text]

\* _extract_json_from_markdown's single json.loads(json_str)
extract_attempts(response) ==
    LET toks == response.tokens
    IN  IF Find(toks, {"FJ"}, 1) # 0
        THEN <<Attempt("fenced", FencedContent(toks, response.trailing_ws, {"FJ"}))>>
        ELSE IF Find(toks, {"F"}, 1) # 0
        THEN <<Attempt("fenced", FencedContent(toks, response.trailing_ws, {"F"}))>>
        ELSE <<Attempt("raw", toks)>>

\* _parse_response's json.loads(response), then the except branch's call
parse_attempts(response) ==
    <<Attempt("direct", response.tokens)>>
    \o (IF json_loads(response.tokens, response.payload).exc = "JSONDecodeError"
        THEN extract_attempts(response)
        ELSE <<>>)

\* summarize parses only what a backend call returned
summarize_attempts(cl, comp) ==
    IF ~cl \/ comp.raises THEN <<>> ELSE parse_attempts(comp.response)

\* Mutant: the backend's exception is let through.
summarize_no_catch(cl, comp) ==
    IF ~cl THEN Ok(EmptyMinutes)
    ELSE IF comp.raises THEN Raise("BackendError", EmptyMinutes)
    ELSE parse_response(comp.response)

\* summarize: the transcript and the context only shape the prompt; what comes
\* back is the backend's to choose.
summarize(cl, comp) ==
    IF ~cl THEN Ok(EmptyMinutes)
    ELSE IF comp.raises THEN Ok(EmptyMinutes)      \* except Exception
    ELSE LET minutes == parse_response(comp.response)
         IN  IF minutes.exc = "none" THEN minutes
             ELSE Ok(EmptyMinutes)                 \* except Exception

----------------------------------------------------------------------------
(* The fusion engine called on a transcript. *)

NoOutcome == Ok(EmptyMinutes)

NoRange == [start |-> 0, end |-> 0]

(* The variables a specification does not use stay at these values. *)
IdleCall == arg = "none" /\ result = "none"

IdleStore == db = <<>> /\ files = {} /\ session = "none"

InitDiar ==
    /\ pc = "ready"
    /\ \E ss \in TranscriptShapes :
         /\ heap = HeapOf(ss)
         /\ segs = [i \in 1..Len(ss) |-> i]
    /\ turns \in ChainTurnSeqs
    /\ ret = <<>>
    /\ before = [segs |-> <<>>, heap |-> <<>>]
    /\ qseg = NoRange
    /\ found = "none"
    /\ client = FALSE
    /\ completion = NotCalled
    /\ outcome = NoOutcome
    /\ IdleCall
    /\ IdleStore

ApplyDiarization ==
    /\ pc = "ready"
    /\ LET r == apply_diarization(heap, segs, turns)
       IN  /\ heap' = r.heap
           /\ ret' = r.ret
    /\ before' = [segs |-> segs, heap |-> heap]
    /\ pc' = "returned"
    /\ UNCHANGED <<segs, turns, qseg, found, svars, cvars, stvars>>

\* The wizard's rename step on what apply_diarization returned:
\* for seg in segments: seg.speaker = speaker_mapping.get(seg.speaker, seg.speaker)
\* with one speaker given a new name.
RenamedTo == "Carol"

RenameSpeakers(h, refs, from) ==
    [r \in DOMAIN h |->
        IF (\E i \in 1..Len(refs) : refs[i] = r) /\ h[r].speaker = from
        THEN [h[r] EXCEPT !.speaker = RenamedTo]
        ELSE h[r]]

Rename ==
    /\ pc = "returned"
    /\ \E i \in 1..Len(ret) :
         heap' = RenameSpeakers(heap, ret, heap[ret[i]].speaker)
    /\ pc' = "renamed"
    /\ UNCHANGED <<segs, turns, ret, before, qseg, found, svars, cvars, stvars>>

NextDiar == ApplyDiarization \/ Rename

SpecDiar == InitDiar /\ [][NextDiar]_vars

----------------------------------------------------------------------------
(* _find_speaker as a function of one time range and any turn sequence. *)

InitFind ==
    /\ pc = "ready"
    /\ heap = <<>>
    /\ segs = <<>>
    /\ ret = <<>>
    /\ before = [segs |-> <<>>, heap |-> <<>>]
    /\ turns \in TurnSeqs
    /\ \E s \in Times, e \in Times :
         /\ s <= e
         /\ qseg = [start |-> s, end |-> e]
    /\ found = "none"
    /\ client = FALSE
    /\ completion = NotCalled
    /\ outcome = NoOutcome
    /\ IdleCall
    /\ IdleStore

FindSpeaker ==
    /\ pc = "ready"
    /\ found' = find_speaker(qseg.start, qseg.end, turns)
    /\ pc' = "found"
    /\ UNCHANGED <<heap, segs, turns, ret, before, qseg, svars, cvars, stvars>>

NextFind == FindSpeaker

SpecFind == InitFind /\ [][NextFind]_vars

----------------------------------------------------------------------------
(* The extractor called once, on any backend behaviour. *)

InitSum ==
    /\ pc = "ready"
    /\ heap = <<>>
    /\ segs = <<>>
    /\ turns = <<>>
    /\ ret = <<>>
    /\ before = [segs |-> <<>>, heap |-> <<>>]
    /\ qseg = NoRange
    /\ found = "none"
    /\ client \in BOOLEAN
    /\ completion = NotCalled
    /\ outcome = NoOutcome
    /\ arg = "none"
    /\ result = <<>>
    /\ IdleStore

\* result records the parse attempts the call made.
Summarize ==
    /\ pc = "ready"
    /\ \E c \in (IF client THEN Completions ELSE {NotCalled}) :
         /\ completion' = c
         /\ outcome' = summarize(client, c)
         /\ result' = summarize_attempts(client, c)
    /\ pc' = "summarized"
    /\ UNCHANGED <<dvars, client, arg, stvars>>

NextSum == Summarize

SpecSum == InitSum /\ [][NextSum]_vars

----------------------------------------------------------------------------
(* Claims about apply_diarization, checked under SpecDiar. *)

SegBefore(i) == before.heap[before.segs[i]]

\* C1: apply_diarization(S, T) returns a sequence as long as S whose i-th
\* element equals S[i] in start, end, text and confidence, in the same order;
\* only the speaker may differ.
C1_SameLengthOrderFields ==
    pc = "returned" =>
        /\ Len(ret) = Len(before.segs)
        /\ \A i \in 1..Len(ret) :
             /\ heap[ret[i]].start = SegBefore(i).start
             /\ heap[ret[i]].end = SegBefore(i).end
             /\ heap[ret[i]].text = SegBefore(i).text
             /\ heap[ret[i]].confidence = SegBefore(i).confidence

\* Two segments of different length went in and came back relabelled.
C1_Witness ==
    /\ pc = "returned"
    /\ Len(ret) = 2
    /\ heap[ret[1]].confidence # heap[ret[2]].confidence
    /\ \E i \in 1..2 : heap[ret[i]].speaker # SegBefore(i).speaker

\* C9: with an empty turn sequence apply_diarization(S, T) equals S: every
\* segment keeps its speaker label and all other fields.
C9_EmptyTurnsIdentity ==
    (pc = "returned" /\ turns = <<>>) =>
        /\ ret = before.segs
        /\ \A i \in 1..Len(ret) : heap[ret[i]] = SegBefore(i)

\* No turns, and a segment that carries another label than the default.
C9_Witness ==
    /\ pc = "returned"
    /\ turns = <<>>
    /\ \E i \in 1..Len(ret) : heap[ret[i]].speaker # DefaultSpeaker

\* C10: apply_diarization does not mutate its input: after the call the
\* caller's sequence has the same elements in the same order and every segment
\* of it has the speaker and the other fields it had before.
C10_InputNotMutated ==
    pc = "returned" =>
        /\ segs = before.segs
        /\ \A i \in 1..Len(segs) : heap[segs[i]] = before.heap[segs[i]]

\* A call that relabelled a segment in what it returned.
C10_Witness ==
    /\ pc = "returned"
    /\ turns # <<>>
    /\ \E i \in 1..Len(segs) : heap[ret[i]].speaker # heap[segs[i]].speaker

\* The overlap of the caller's i-th segment, as it was at the call, with turn k.
OvSeg(i, k) == Overlap(SegBefore(i).start, SegBefore(i).end, turns[k])

\* C11: with a non-empty turn sequence, a segment whose overlap with every
\* turn is zero is assigned "Speaker 1", whatever label it carried before and
\* whatever labels the turns carry.
C11_NoOverlapGetsSpeaker1 ==
    (pc = "returned" /\ turns # <<>>) =>
        \A i \in 1..Len(ret) :
            (\A k \in 1..Len(turns) : OvSeg(i, k) = 0)
                => heap[ret[i]].speaker = "Speaker 1"

\* A segment labelled "Alice" that no turn overlaps, among turns none of which
\* is labelled "Speaker 1", comes back as "Speaker 1".
C11_Witness ==
    /\ pc = "returned"
    /\ turns # <<>>
    /\ \A k \in 1..Len(turns) : turns[k].label = "Speaker 2"
    /\ \E i \in 1..Len(ret) :
         /\ SegBefore(i).speaker = "Alice"
         /\ \A k \in 1..Len(turns) : OvSeg(i, k) = 0
         /\ heap[ret[i]].speaker = "Speaker 1"

----------------------------------------------------------------------------
(* Claims about _find_speaker, checked under SpecFind. *)

Ov(i) == Overlap(qseg.start, qseg.end, turns[i])

\* The range lies inside turn i.
Contains(i) == turns[i].start <= qseg.start /\ qseg.end <= turns[i].end

\* C7: for a segment overlapping two turns the label assigned is that of the
\* turn with strictly greater overlap; when the two overlaps are equal, the
\* turn that comes first in the input order is assigned.
C7_GreaterOverlapFirstOnTie ==
    pc = "found" =>
        \A i \in 1..Len(turns), j \in 1..Len(turns) :
            ( /\ i < j
              /\ Ov(i) > 0
              /\ Ov(j) > 0
              /\ \A k \in 1..Len(turns) : k \notin {i, j} => Ov(k) = 0 )
            => found = IF Ov(j) > Ov(i) THEN turns[j].label ELSE turns[i].label

\* Two turns of different labels overlap the segment equally; the first won.
C7_Witness ==
    /\ pc = "found"
    /\ Len(turns) >= 2
    /\ Ov(1) = Ov(2)
    /\ Ov(1) > 0
    /\ turns[1].label # turns[2].label
    /\ found = turns[1].label

\* C8 as stated: a segment whose [start, end] lies inside exactly one turn is
\* assigned that turn's label.
C8_ContainedGetsTurnLabel ==
    pc = "found" =>
        \A i \in 1..Len(turns) :
            ( /\ Contains(i)
              /\ \A j \in 1..Len(turns) : j # i => ~Contains(j) )
            => found = turns[i].label

\* C8 amended: a segment of positive duration (end > start) whose [start, end]
\* lies inside exactly one turn is assigned that turn's label.
C8_ContainedPositiveGetsTurnLabel ==
    pc = "found" =>
        \A i \in 1..Len(turns) :
            ( /\ qseg.end > qseg.start
              /\ Contains(i)
              /\ \A j \in 1..Len(turns) : j # i => ~Contains(j) )
            => found = turns[i].label

\* A segment inside the second turn only, overlapped in part by the first,
\* got the second turn's label, which is not the default.
C8_Witness ==
    /\ pc = "found"
    /\ Len(turns) = 2
    /\ qseg.end > qseg.start
    /\ Contains(2)
    /\ ~Contains(1)
    /\ Ov(1) > 0
    /\ turns[2].label # DefaultSpeaker
    /\ found = turns[2].label

----------------------------------------------------------------------------
(* Claims about summarize, checked under SpecSum. *)

Returned == pc = "summarized" /\ client /\ ~completion.raises

Payload0 == completion.response.payload

\* An action item object short of a non-empty owner or task.
Defective(item) == item.owner \in {ABSENT, ""} \/ item.task \in {ABSENT, ""}

\* C2: summarize, for any backend behaviour (any returned text or a raised
\* error), returns a MeetingMinutes whose summary has at most 8 entries.
C2_SummaryAtMostCap ==
    pc = "summarized" =>
        /\ outcome.exc = "none"
        /\ Len(outcome.val.summary) <= SummaryCap

\* A fenced response whose summary is longer than the cap came back cut to it.
C2_Witness ==
    /\ Returned
    /\ completion.response.tokens = <<"FJ", "J", "F">>
    /\ Len(Payload0.summary) > SummaryCap
    /\ Len(outcome.val.summary) = SummaryCap

\* C3: when the backend call raises (or no client is available), summarize
\* returns an empty MeetingMinutes (summary, decisions, action_items and risks
\* empty, notes null) and no exception reaches the caller.
C3_BackendFailureGivesEmpty ==
    (pc = "summarized" /\ (~client \/ completion.raises)) =>
        /\ outcome.exc = "none"
        /\ outcome.val.summary = <<>>
        /\ outcome.val.decisions = <<>>
        /\ outcome.val.action_items = <<>>
        /\ outcome.val.risks = <<>>
        /\ outcome.val.notes = None

\* A client was there and its call raised.
C3_Witness ==
    /\ pc = "summarized"
    /\ client
    /\ completion.raises

\* C4: when the response parses as JSON but holds an action item short of a
\* non-empty owner or task, a structural validation failure is raised to the
\* caller of summarize; no record is returned.
C4_DefectiveItemRaises ==
    ( /\ Returned
      /\ completion.response.tokens = <<"J">>
      /\ Payload0.kind = "object"
      /\ \E i \in 1..Len(Payload0.action_items) : Defective(Payload0.action_items[i]) )
    => outcome.exc # "none"

\* C5: summarize on J wrapped in a ```json fenced block returns what it
\* returns on J unwrapped.
C5_FencedSameAsUnwrapped ==
    (Returned /\ completion.response.tokens = <<"FJ", "J", "F">>) =>
        outcome = summarize(TRUE, [completion EXCEPT !.response.tokens = <<"J">>])

\* C6: every ActionItem held in a MeetingMinutes has a non-empty owner and a
\* non-empty task.
C6_ItemsHaveOwnerAndTask ==
    pc = "summarized" =>
        \A i \in 1..Len(outcome.val.action_items) :
            /\ outcome.val.action_items[i].owner # ""
            /\ outcome.val.action_items[i].task # ""

----------------------------------------------------------------------------
(* SpeakerDiarizer._fallback_diarization: fixed windows over the audio.     *)
(* Durations are whole seconds.  An audio file is what librosa makes of it: *)
(* unreadable (get_duration raises), or readable with a duration.           *)

MaxDuration == 65

\* segment_length = 30.0
segment_length == 30

Audio(readable, duration) == [readable |-> readable, duration |-> duration]

Unreadable == Audio(FALSE, 0)

Audios == {Unreadable} \cup {Audio(TRUE, d) : d \in 0..MaxDuration}

\* f"Speaker {speaker_num}", speaker_num being 1 or 2
SpeakerName(speaker_num) == IF speaker_num = 1 THEN "Speaker 1" ELSE "Speaker 2"

\* The locals of the loop.
Frame(current_time, speaker_num, segments) ==
    [current_time |-> current_time, speaker_num |-> speaker_num,
     segments |-> segments]

\* current_time = 0.0; speaker_num = 1; segments = []
FrameInit == Frame(0, 1, <<>>)

\* A window that runs past the end of the audio.
FallbackBodyNoClamp(duration, f) ==
    LET end_time == f.current_time + segment_length
    IN  Frame(end_time,
              IF f.speaker_num = 1 THEN 2 ELSE 1,
              Append(f.segments,
                     Turn(f.current_time, end_time, SpeakerName(f.speaker_num))))

\* One iteration of `while current_time < duration`.
FallbackBody(duration, f) ==
    LET end_time == Min(f.current_time + segment_length, duration)
    IN  Frame(end_time,
              IF f.speaker_num = 1 THEN 2 ELSE 1,
              Append(f.segments,
                     Turn(f.current_time, end_time, SpeakerName(f.speaker_num))))

RECURSIVE FallbackLoop(_, _)
FallbackLoop(duration, f) ==
    IF f.current_time < duration
    THEN FallbackLoop(duration, FallbackBody(duration, f))
    ELSE f.segments

\* try: duration = librosa.get_duration(...); the loop; except Exception: []
fallback_diarization(audio) ==
    IF audio.readable THEN FallbackLoop(audio.duration, FrameInit) ELSE <<>>

(* The fallback run one iteration at a time: `result` holds the loop's locals. *)

InitFallback ==
    /\ pc = "ready"
    /\ arg \in Audios
    /\ result = FrameInit
    /\ heap = <<>>
    /\ segs = <<>>
    /\ turns = <<>>
    /\ ret = <<>>
    /\ before = [segs |-> <<>>, heap |-> <<>>]
    /\ qseg = NoRange
    /\ found = "none"
    /\ client = FALSE
    /\ completion = NotCalled
    /\ outcome = NoOutcome
    /\ IdleStore

\* get_duration, then the locals are set; or it raises and [] is returned.
FallbackEnter ==
    /\ pc = "ready"
    /\ IF arg.readable
       THEN pc' = "loop" /\ UNCHANGED turns
       ELSE pc' = "returned" /\ turns' = <<>>
    /\ UNCHANGED <<heap, segs, ret, before, qseg, found, svars, cvars, stvars>>

FallbackIterate ==
    /\ pc = "loop"
    /\ result.current_time < arg.duration
    /\ result' = FallbackBody(arg.duration, result)
    /\ UNCHANGED <<pc, dvars, svars, arg, stvars>>

FallbackReturn ==
    /\ pc = "loop"
    /\ ~(result.current_time < arg.duration)
    /\ turns' = result.segments
    /\ pc' = "returned"
    /\ UNCHANGED <<heap, segs, ret, before, qseg, found, svars, cvars, stvars>>

NextFallback == FallbackEnter \/ FallbackIterate \/ FallbackReturn

\* The call runs on one thread that nothing preempts: a step that can be
\* taken is taken.
SpecFallback ==
    InitFallback /\ [][NextFallback]_vars /\ WF_vars(NextFallback)

\* ceil(d / 30) for a whole d >= 0
CeilWindows(d) == (d + 29) \div 30

C12_Partition ==
    (pc = "returned" /\ arg.readable) =>
        LET D == arg.duration
            n == Len(turns)
        IN  /\ n = CeilWindows(D)
            /\ D = 0 => turns = <<>>
            /\ n > 0 => turns[1].start = 0 /\ turns[n].end = D
            /\ \A i \in 1..n : turns[i].start < turns[i].end
            /\ \A i \in 1..(n - 1) :
                 /\ turns[i].end = turns[i + 1].start
                 /\ turns[i].end - turns[i].start = 30
            /\ \A i \in 1..n :
                 turns[i].label = IF i % 2 = 1 THEN "Speaker 1" ELSE "Speaker 2"

\* C12: the fallback diarization over audio of duration D returns exactly
\* ceil(D / 30) turns that partition [0, D]: the first starts at 0, each
\* starts where the one before ended, all but the last are 30 s long, the last
\* ends at D, and the labels alternate "Speaker 1", "Speaker 2", ... from
\* "Speaker 1"; no turn for D = 0; and the loop terminates for every D.
C12_FallbackPartitionsAndTerminates ==
    []C12_Partition /\ <>(pc = "returned")

\* 65 s of audio came back as three turns, the last one five seconds long and
\* labelled "Speaker 1" again.
C12_Witness ==
    /\ pc = "returned"
    /\ arg = Audio(TRUE, 65)
    /\ turns = <<Turn(0, 30, "Speaker 1"), Turn(30, 60, "Speaker 2"),
                 Turn(60, 65, "Speaker 1")>>

----------------------------------------------------------------------------
(* SpeakerDiarizer.diarize and merge_transcript_and_diarization: the stage  *)
(* as the wizard runs it, on any behaviour of the pyannote backend.         *)

\* Stands for a turn bound that is not a number (no time is negative).
NotANumber == -1

\* A turn whose bounds are not numbers: _find_speaker's min/max raise on it.
BadTurn == Turn(NotANumber, NotANumber, "Speaker 1")

WellFormed(t) == t.start # NotANumber /\ t.end # NotANumber

\* What __init__ and the pipeline call make of the backend: the pipeline did
\* not load (self.pipeline is None), the call raises, or it yields turns.
Backend(pipeline, ts, audio) == [pipeline |-> pipeline, turns |-> ts, audio |-> audio]

\* Audio shorter than a window, of one window and a bit, or unreadable.
MergeAudios ==
    {Unreadable} \cup {Audio(TRUE, d) : d \in {0, MaxTime, segment_length + MaxTime}}

Backends ==
    {Backend(p, <<>>, a) : p \in {"unavailable", "raises"}, a \in MergeAudios}
    \cup {Backend("turns", ts, Audio(TRUE, MaxTime)) :
            ts \in ChainTurnSeqs \cup {<<BadTurn>>}}

\* The try block of diarize: the pipeline call and the conversion loop.
diarize_try(b) ==
    IF b.pipeline = "raises" THEN Raise("Exception", <<>>) ELSE Ok(b.turns)

\* diarize with the handler left out: the backend's exception gets out.
diarize_no_catch(b) ==
    IF b.pipeline = "unavailable"
    THEN Ok(fallback_diarization(b.audio))
    ELSE diarize_try(b)

diarize(b) ==
    IF b.pipeline = "unavailable"
    THEN Ok(fallback_diarization(b.audio))
    ELSE LET r == diarize_try(b)
         IN  IF r.exc # "none" THEN Ok(fallback_diarization(b.audio)) ELSE r

\* apply_diarization on turns that may be malformed: the first segment's
\* _find_speaker raises TypeError before any copy is made.
try_apply(h, ss, ts) ==
    IF ts # <<>> /\ ss # <<>> /\ \E k \in 1..Len(ts) : ~WellFormed(ts[k])
    THEN Raise("TypeError", [heap |-> h, ret |-> <<>>])
    ELSE Ok(apply_diarization(h, ss, ts))

\* try: diarize, apply_diarization; except Exception: return transcript_segments
merge_transcript_and_diarization(h, ss, b) ==
    LET d == diarize(b)
    IN  IF d.exc # "none"
        THEN [speaker_segments |-> <<>>, exc |-> d.exc, heap |-> h, ret |-> ss]
        ELSE LET a == try_apply(h, ss, d.val)
             IN  IF a.exc # "none"
                 THEN [speaker_segments |-> d.val, exc |-> a.exc,
                       heap |-> h, ret |-> ss]
                 ELSE [speaker_segments |-> d.val, exc |-> "none",
                       heap |-> a.val.heap, ret |-> a.val.ret]

InitMerge ==
    /\ pc = "ready"
    /\ \E ss \in TranscriptShapes :
         /\ heap = HeapOf(ss)
         /\ segs = [i \in 1..Len(ss) |-> i]
    /\ arg \in Backends
    /\ result = Ok(<<>>)
    /\ turns = <<>>
    /\ ret = <<>>
    /\ before = [segs |-> <<>>, heap |-> <<>>]
    /\ qseg = NoRange
    /\ found = "none"
    /\ client = FALSE
    /\ completion = NotCalled
    /\ outcome = NoOutcome
    /\ IdleStore

\* A call of diarize alone.
Diarize ==
    /\ pc = "ready"
    /\ result' = diarize(arg)
    /\ pc' = "diarized"
    /\ UNCHANGED <<dvars, svars, arg, stvars>>

\* The stage: `result` records the exception the handler caught, if any.
Merge ==
    /\ pc = "ready"
    /\ LET m == merge_transcript_and_diarization(heap, segs, arg)
       IN  /\ heap' = m.heap
           /\ ret' = m.ret
           /\ turns' = m.speaker_segments
           /\ result' = Raise(m.exc, <<>>)
    /\ before' = [segs |-> segs, heap |-> heap]
    /\ pc' = "merged"
    /\ UNCHANGED <<segs, qseg, found, svars, arg, stvars>>

NextMerge == Diarize \/ Merge

SpecMerge == InitMerge /\ [][NextMerge]_vars

\* C13: the diarization stage never fails the pipeline.  diarize never
\* raises; when the backend is unavailable or raises it returns the fallback
\* turns, which are the empty sequence when the audio duration cannot be
\* determined; merge_transcript_and_diarization then returns the transcript
\* segments with their existing labels, and so it does when a step raises.
C13_StageNeverFails ==
    /\ pc = "diarized" =>
         /\ result.exc = "none"
         /\ arg.pipeline \in {"unavailable", "raises"} =>
              /\ result.val = fallback_diarization(arg.audio)
              /\ ~arg.audio.readable => result.val = <<>>
    /\ pc = "merged" =>
         /\ Len(ret) = Len(segs)
         /\ (turns = <<>> \/ result.exc # "none") =>
              /\ ret = segs
              /\ heap = before.heap

\* diarize fell back to nothing on unreadable audio behind a raising backend.
C13_WitnessDiarize ==
    /\ pc = "diarized"
    /\ arg.pipeline = "raises"
    /\ ~arg.audio.readable
    /\ result = Ok(<<>>)

\* The stage's handler caught an exception and a transcript carrying "Alice"
\* came back as it was.
C13_Witness ==
    /\ pc = "merged"
    /\ result.exc = "TypeError"
    /\ ret = segs
    /\ \E i \in 1..Len(ret) : heap[ret[i]].speaker = "Alice"

----------------------------------------------------------------------------
(* TranscriptSegment's text validator.  A text is a sequence of characters. *)

MaxTextLen == 4

\* Characters: two of white space (a blank, a tab) and a letter.
Whitespace == {" ", "TAB"}

Chars == Whitespace \cup {"a"}

Texts == SeqsUpTo(Chars, MaxTextLen)

RECURSIVE lstrip(_)
lstrip(v) ==
    IF v = <<>> THEN v
    ELSE IF Head(v) \in Whitespace THEN lstrip(Tail(v)) ELSE v

RECURSIVE rstrip(_)
rstrip(v) ==
    IF v = <<>> THEN v
    ELSE IF v[Len(v)] \in Whitespace THEN rstrip(SubSeq(v, 1, Len(v) - 1)) ELSE v

\* str.strip()
strip(v) == rstrip(lstrip(v))

\* The validator keeping what it was given once it has been found non-blank.
TextNotEmptyUnstripped(v) ==
    IF v = <<>> \/ strip(v) = <<>>
    THEN Raise("ValueError", v)
    ELSE Ok(v)

\* if not v or not v.strip(): raise ValueError(...); return v.strip()
text_not_empty(v) ==
    IF v = <<>> \/ strip(v) = <<>>
    THEN Raise("ValueError", v)
    ELSE Ok(strip(v))

\* TranscriptSegment(start=..., end=..., text=..., speaker=..., confidence=...)
\* on values of the declared types: the construction fails with the
\* validator's error, or yields the record with the validated text.
TranscriptSegment(start, end, text, speaker, confidence) ==
    LET t == text_not_empty(text)
    IN  IF t.exc # "none"
        THEN Raise("ValidationError", None)
        ELSE Ok(Segment(start, end, t.val, speaker, confidence))

InitSeg ==
    /\ pc = "ready"
    /\ arg \in Texts
    /\ result = Ok(None)
    /\ heap = <<>>
    /\ segs = <<>>
    /\ turns = <<>>
    /\ ret = <<>>
    /\ before = [segs |-> <<>>, heap |-> <<>>]
    /\ qseg = NoRange
    /\ found = "none"
    /\ client = FALSE
    /\ completion = NotCalled
    /\ outcome = NoOutcome
    /\ IdleStore

Construct ==
    /\ pc = "ready"
    /\ result' = TranscriptSegment(0, 1, arg, DefaultSpeaker, 100)
    /\ pc' = "constructed"
    /\ UNCHANGED <<dvars, svars, arg, stvars>>

NextSeg == Construct

SpecSeg == InitSeg /\ [][NextSeg]_vars

\* v is the text t without its leading and trailing white space: the stretch
\* of t from its first to its last character that is not white space.
StrippedOf(v, t) ==
    \E i \in 1..Len(t), j \in 1..Len(t) :
        /\ i <= j
        /\ v = SubSeq(t, i, j)
        /\ t[i] \notin Whitespace
        /\ t[j] \notin Whitespace
        /\ \A k \in 1..Len(t) : (k < i \/ k > j) => t[k] \in Whitespace

\* C17: a TranscriptSegment whose text is empty or only white space is
\* rejected with a validation error; otherwise the stored text equals the
\* input with leading and trailing white space removed.
C17_TextValidated ==
    pc = "constructed" =>
        IF \A k \in 1..Len(arg) : arg[k] \in Whitespace
        THEN result.exc = "ValidationError"
        ELSE /\ result.exc = "none"
             /\ StrippedOf(result.val.text, arg)

\* " a a" padded with a tab was stored as "a a": the inner blank stays.
C17_Witness ==
    /\ pc = "constructed"
    /\ arg = <<"TAB", "a", " ", "a">>
    /\ result.exc = "none"
    /\ result.val.text = <<"a", " ", "a">>

\* A text of two blanks was rejected.
C17_WitnessRejected ==
    /\ pc = "constructed"
    /\ arg = <<" ", "TAB">>
    /\ result.exc = "ValidationError"

----------------------------------------------------------------------------
(* More claims about summarize, checked under SpecSum. *)

\* The object has the keys owner and task, both non-empty, and no other key.
OnlyOwnerAndTask(item) ==
    /\ DOMAIN item = {"owner", "task"}
    /\ ~Defective(item)

----------------------------------------------------------------------------
(* MeetingStorage (src/src/storage.py): the meetings table and the          *)
(* conversions between a Meeting and its row.                               *)

MaxId == 2

\* Meeting.id when unset: None, which `if meeting.id` takes like 0.
NoId == 0

\* None where a record is expected (Optional[MeetingMinutes], a Meeting that
\* was not found, a NULL column holding JSON).
Null == [null |-> TRUE]

Ids == 1..MaxId

Meeting(id, title, date, participants, agenda, transcript, minutes, audio_path) ==
    [id |-> id, title |-> title, date |-> date, participants |-> participants,
     agenda |-> agenda, transcript |-> transcript, minutes |-> minutes,
     audio_path |-> audio_path]

\* json.dumps of a value: a text, no longer the value.
dumps(v) == [json |-> v]

\* json.loads
loads(s) == s.json

\* MeetingDB(...) as save_meeting fills it; model_dump() turns a model into
\* the dictionary of its fields, nested models included.
Row(meeting) ==
    [title |-> meeting.title,
     date |-> meeting.date,
     participants |-> dumps(meeting.participants),
     agenda |-> meeting.agenda,
     transcript |-> dumps(meeting.transcript),
     minutes |-> IF meeting.minutes # Null THEN dumps(meeting.minutes) ELSE Null,
     audio_path |-> meeting.audio_path]

\* An id taken from the number of rows: it collides once a row was deleted.
NextIdByCount(table) == Cardinality(DOMAIN table) + 1

\* The id SQLite gives a row inserted without one: one more than the largest
\* in the table.
NextId(table) ==
    IF DOMAIN table = {} THEN 1
    ELSE 1 + CHOOSE m \in DOMAIN table : \A i \in DOMAIN table : i <= m

Put(table, id, row) ==
    [i \in DOMAIN table \cup {id} |-> IF i = id THEN row ELSE table[i]]

Remove(table, id) == [i \in DOMAIN table \ {id} |-> table[i]]

\* save_meeting: merge under the meeting's id when it has one, else add;
\* commit; return the row's id.  A failed commit is rolled back and raised.
save_meeting(table, meeting, commit_ok) ==
    LET id == IF meeting.id # NoId THEN meeting.id ELSE NextId(table)
    IN  IF commit_ok
        THEN [db |-> Put(table, id, Row(meeting)), exc |-> "none", val |-> id]
        ELSE [db |-> table, exc |-> "SQLAlchemyError", val |-> NoId]

\* [TranscriptSegment(**seg) for seg in transcript_data]
SegmentsFromData(data) ==
    LET made == [i \in 1..Len(data) |->
                    TranscriptSegment(data[i].start, data[i].end, data[i].text,
                                      data[i].speaker, data[i].confidence)]
    IN  IF \E i \in 1..Len(data) : made[i].exc # "none"
        THEN Raise("ValidationError", <<>>)
        ELSE Ok([i \in 1..Len(data) |-> made[i].val])

\* MeetingMinutes(**minutes_data): the nested dictionaries become ActionItems
\* and the summary validator runs again.
MinutesFromRow(data) ==
    IF \E i \in 1..Len(data.action_items) : ~ActionItemAccepts(data.action_items[i])
    THEN Raise("ValidationError", Null)
    ELSE Ok(MeetingMinutes(
                data.summary, data.decisions,
                [i \in 1..Len(data.action_items) |-> ActionItem(data.action_items[i])],
                data.risks, data.notes))

\* _db_to_meeting
db_to_meeting(id, row) ==
    LET transcript == SegmentsFromData(loads(row.transcript))
        minutes == IF row.minutes # Null THEN MinutesFromRow(loads(row.minutes))
                   ELSE Ok(Null)
    IN  IF transcript.exc # "none" THEN Raise(transcript.exc, Null)
        ELSE IF minutes.exc # "none" THEN Raise(minutes.exc, Null)
        ELSE Ok(Meeting(id, row.title, row.date, loads(row.participants),
                        row.agenda, transcript.val, minutes.val, row.audio_path))

\* get_meeting: None when there is no such row or the conversion raises.
get_meeting(table, id) ==
    IF id \notin DOMAIN table THEN Null
    ELSE LET m == db_to_meeting(id, table[id])
         IN  IF m.exc # "none" THEN Null ELSE m.val

----------------------------------------------------------------------------
(* The wizard's minutes stage (src/pages/new_meeting.py, show_minutes_stage)*)
(* and what follows it: the minutes are generated, edited, saved, and read  *)
(* back from the store.                                                     *)

\* st.session_state.meeting_metadata as the upload stage leaves it.
Metadatas ==
    [title : {"Sync"}, date : {1}, participants : {<<>>, <<"Ann", "Bob">>},
     agenda : {None, "plan"}]

\* Transcripts as the transcribe stage leaves them: validated segments, one
\* of them renamed; the minutes stage shows nothing for an empty transcript.
EditorTranscripts ==
    {<<Segment(0, 1, <<"a">>, "Speaker 1", 95)>>,
     <<Segment(0, 1, <<"a">>, "Alice", 95),
       Segment(1, 2, <<"a", " ", "a">>, "Speaker 1", 95)>>}

\* A blank line of a text area; the other lines are numbered bullets.
BlankLine == 0

\* What the user may leave in the summary text area.
SummaryTexts ==
    {Bullets(n) : n \in SummaryLengths}
    \cup {Append(Bullets(n), BlankLine) : n \in SummaryLengths}

IsLine(line) == line # BlankLine

\* [line.strip() for line in summary_text.split("\n") if line.strip()]
Lines(text) == SelectSeq(text, IsLine)

\* The summary assigned through the model's validator.
AssignSummaryValidated(minutes, text) ==
    [minutes EXCEPT !.summary = summary_max_length(Lines(text))]

\* minutes.summary = [...]: a plain attribute assignment; the model does not
\* validate assignments.
AssignSummary(minutes, text) == [minutes EXCEPT !.summary = Lines(text)]

\* What summarize (or the handler's MeetingMinutes()) hands the stage.
GeneratedMinutes ==
    {MeetingMinutes(Bullets(n), <<>>, items, <<>>, None) :
        n \in SummaryLengths,
        items \in {<<>>, <<ActionItem([owner |-> "Ann", task |-> "Review"])>>}}

Session(metadata, transcript, minutes, audio, saved) ==
    [meeting_metadata |-> metadata, transcript_segments |-> transcript,
     meeting_minutes |-> minutes, temp_audio_path |-> audio,
     saved_meeting_id |-> saved]

InitEditor ==
    /\ pc = "minutes"
    /\ \E md \in Metadatas, tr \in EditorTranscripts :
         session = Session(md, tr, Null, "tmp.wav", NoId)
    /\ db = <<>>
    /\ files = {"tmp.wav"}
    /\ arg = Null
    /\ result = Null
    /\ heap = <<>>
    /\ segs = <<>>
    /\ turns = <<>>
    /\ ret = <<>>
    /\ before = [segs |-> <<>>, heap |-> <<>>]
    /\ qseg = NoRange
    /\ found = "none"
    /\ client = FALSE
    /\ completion = NotCalled
    /\ outcome = NoOutcome

\* if not st.session_state.meeting_minutes: ... = summarizer.summarize(...)
GenerateMinutes ==
    /\ pc = "minutes"
    /\ session.meeting_minutes = Null
    /\ \E m \in GeneratedMinutes :
         session' = [session EXCEPT !.meeting_minutes = m]
    /\ UNCHANGED <<pc, dvars, svars, cvars, db, files>>

\* A rerun after the user changed the summary text area.
EditSummary ==
    /\ pc = "minutes"
    /\ session.meeting_minutes # Null
    /\ \E text \in SummaryTexts :
         session' = [session EXCEPT
                        !.meeting_minutes = AssignSummary(session.meeting_minutes, text)]
    /\ UNCHANGED <<pc, dvars, svars, cvars, db, files>>

\* Save & Export: Meeting(**metadata, transcript=..., minutes=...,
\* audio_path=...) takes the minutes object as it is; save_meeting.
SaveAndExport ==
    /\ pc = "minutes"
    /\ session.meeting_minutes # Null
    /\ LET md == session.meeting_metadata
           meeting == Meeting(NoId, md.title, md.date, md.participants, md.agenda,
                              session.transcript_segments,
                              session.meeting_minutes, session.temp_audio_path)
           saved == save_meeting(db, meeting, TRUE)
       IN  /\ arg' = meeting
           /\ db' = saved.db
           /\ session' = [session EXCEPT !.saved_meeting_id = saved.val]
    /\ pc' = "export"
    /\ UNCHANGED <<dvars, svars, result, files>>

\* The saved meeting read back: get_meeting(saved_meeting_id).
Reload ==
    /\ pc = "export"
    /\ result' = get_meeting(db, session.saved_meeting_id)
    /\ pc' = "reloaded"
    /\ UNCHANGED <<dvars, svars, arg, stvars>>

NextEditor == GenerateMinutes \/ EditSummary \/ SaveAndExport \/ Reload

SpecEditor == InitEditor /\ [][NextEditor]_vars

\* C14: a MeetingMinutes never holds more than 8 summary entries in any
\* reachable state: not after construction, not after the minutes editor
\* reassigned its summary, not after it was saved and loaded again.
C14_SummaryNeverOverCap ==
    /\ session.meeting_minutes # Null =>
         Len(session.meeting_minutes.summary) <= 8
    /\ (pc = "reloaded" /\ result # Null /\ result.minutes # Null) =>
         Len(result.minutes.summary) <= 8

\* C19: get_meeting(save_meeting(m)) is a Meeting equal to m in title, date,
\* participants, agenda, audio path, transcript (same segments, same order)
\* and minutes.
C19_RoundTrip ==
    pc = "reloaded" =>
        /\ result # Null
        /\ result.title = arg.title
        /\ result.date = arg.date
        /\ result.participants = arg.participants
        /\ result.agenda = arg.agenda
        /\ result.audio_path = arg.audio_path
        /\ result.transcript = arg.transcript
        /\ result.minutes = arg.minutes

----------------------------------------------------------------------------
(* The three timestamp formatters.  A time is a whole number of half        *)
(* seconds, so that times with a fraction are among the inputs; a string is *)
(* a sequence of characters.                                                *)

MaxHalfSeconds == 12131

DigitChar(d) == <<"0", "1", "2", "3", "4", "5", "6", "7", "8", "9">>[d + 1]

\* The decimal digits of n >= 0, as str(n) gives them.
RECURSIVE Decimal(_)
Decimal(n) ==
    IF n < 10 THEN <<DigitChar(n)>>
    ELSE Append(Decimal(n \div 10), DigitChar(n % 10))

\* f"{n:02d}" for n >= 0: at least two digits, zeros in front.
Format02d(n) == IF n < 10 THEN <<"0">> \o Decimal(n) ELSE Decimal(n)

\* int(seconds // 60) and int(seconds % 60) of h half seconds
MinutesOf(h) == h \div 120

SecsOf(h) == (h % 120) \div 2

\* MeetingSummarizer._format_timestamp
SummarizerFormatTimestamp(h) ==
    Format02d(MinutesOf(h)) \o <<":">> \o Format02d(SecsOf(h))

\* A formatter that wraps the minutes at the hour.
ExporterFormatTimestampWrapped(h) ==
    Format02d(MinutesOf(h) % 60) \o <<":">> \o Format02d(SecsOf(h))

\* DocumentExporter._format_timestamp
ExporterFormatTimestamp(h) ==
    Format02d(MinutesOf(h)) \o <<":">> \o Format02d(SecsOf(h))

\* format_timestamp of the wizard page
format_timestamp(h) ==
    Format02d(MinutesOf(h)) \o <<":">> \o Format02d(SecsOf(h))

InitStamp ==
    /\ pc = "ready"
    /\ arg \in 0..MaxHalfSeconds
    /\ result = [summarizer |-> <<>>, exporter |-> <<>>, wizard |-> <<>>]
    /\ heap = <<>>
    /\ segs = <<>>
    /\ turns = <<>>
    /\ ret = <<>>
    /\ before = [segs |-> <<>>, heap |-> <<>>]
    /\ qseg = NoRange
    /\ found = "none"
    /\ client = FALSE
    /\ completion = NotCalled
    /\ outcome = NoOutcome
    /\ IdleStore

\* Each of the three is called on the same time.
FormatTimestamp ==
    /\ pc = "ready"
    /\ result' = [summarizer |-> SummarizerFormatTimestamp(arg),
                  exporter |-> ExporterFormatTimestamp(arg),
                  wizard |-> format_timestamp(arg)]
    /\ pc' = "formatted"
    /\ UNCHANGED <<dvars, svars, arg, stvars>>

NextStamp == FormatTimestamp

SpecStamp == InitStamp /\ [][NextStamp]_vars

\* The number a sequence of digit characters writes.
RECURSIVE ValueOf(_)
ValueOf(str) ==
    IF str = <<>> THEN 0
    ELSE 10 * ValueOf(SubSeq(str, 1, Len(str) - 1))
         + (CHOOSE d \in 0..9 : DigitChar(d) = str[Len(str)])

IsDigits(str) == \A i \in 1..Len(str) : \E d \in 0..9 : DigitChar(d) = str[i]

\* C16: formatting a time of s >= 0 seconds yields floor(s / 60) zero-padded
\* to at least two digits, a colon, and floor(s) mod 60 zero-padded to two
\* digits; the minutes are never wrapped at 60 (0 -> "00:00", 65 -> "01:05",
\* 3665 -> "61:05"); the summarizer's, the exporter's and the wizard's
\* formatter return the same string.
C16_TimestampFormat ==
    pc = "formatted" =>
        LET str == result.exporter
            n == Len(str)
            mm == SubSeq(str, 1, n - 3)
            ss == SubSeq(str, n - 1, n)
        IN  /\ n >= 5
            /\ str[n - 2] = ":"
            /\ IsDigits(mm) /\ IsDigits(ss)
            /\ ValueOf(mm) = arg \div 120
            /\ Len(mm) > 2 => mm[1] # "0"
            /\ ValueOf(ss) = (arg \div 2) % 60
            /\ arg = 0 => str = <<"0", "0", ":", "0", "0">>
            /\ arg = 130 => str = <<"0", "1", ":", "0", "5">>
            /\ arg = 7330 => str = <<"6", "1", ":", "0", "5">>
            /\ result.summarizer = str
            /\ result.wizard = str

\* 6065.5 s came out as "101:05" from all three.
C16_Witness ==
    /\ pc = "formatted"
    /\ arg = 12131
    /\ result.exporter = <<"1", "0", "1", ":", "0", "5">>
    /\ result.summarizer = result.exporter
    /\ result.wizard = result.exporter

----------------------------------------------------------------------------
(* The two transcribers (src/src/transcription.py).  The speech model is a  *)
(* black box: called on a file it raises or yields raw segments.            *)

\* Texts the speech model may give a raw segment: padded, and blank.
RawTexts == {<<"a">>, <<" ", "a">>, <<"a", " ">>, <<" ">>}

\* Raw segments lie one after the other, the i-th over (i - 1, i).
RawResults == SeqsUpTo(RawTexts, MaxSegs)

\* What the model does when called.
ModelOutcomes ==
    {[raises |-> TRUE, segments |-> <<>>]}
    \cup {[raises |-> FALSE, segments |-> raw] : raw \in RawResults}

\* The arguments of a transcription: whether the path exists, which
\* transcriber get_transcriber chose, and what the model would do.
Transcriptions == [exists : BOOLEAN, use_fast : BOOLEAN, model : ModelOutcomes]

\* confidence=0.9: faster-whisper gives none (in percent)
FastConfidence == 90

\* What transcribe did: the exception it let out, the segments it returned,
\* and whether the model was invoked.
Transcribed(exc, val, invoked) == [exc |-> exc, val |-> val, invoked |-> invoked]

\* The conversion loop: one TranscriptSegment per raw segment, its text
\* stripped before construction; a refused segment ends the call.
Converted(raw, fast) ==
    LET made == [i \in 1..Len(raw) |->
                    TranscriptSegment(
                        i - 1, i, strip(raw[i]), DefaultSpeaker,
                        IF fast THEN FastConfidence
                        ELSE calculate_confidence(i - 1, i))]
    IN  IF \E i \in 1..Len(raw) : made[i].exc # "none"
        THEN Transcribed("ValidationError", <<>>, TRUE)
        ELSE Transcribed("none", [i \in 1..Len(raw) |-> made[i].val], TRUE)

\* The body after the existence check: the model call and the conversion.
Recognize(t) ==
    IF ~t.exists \/ t.model.raises
    THEN Transcribed("RuntimeError", <<>>, TRUE)
    ELSE Converted(t.model.segments, t.use_fast)

\* AudioTranscriber.transcribe
audio_transcribe(t) ==
    IF ~t.exists
    THEN Transcribed("FileNotFoundError", <<>>, FALSE)
    ELSE Recognize(t)

\* A fast transcriber that hands any path to the model.
FastTranscribeUnchecked(t) == Recognize(t)

\* FastTranscriber.transcribe
fast_transcribe(t) ==
    IF ~t.exists
    THEN Transcribed("FileNotFoundError", <<>>, FALSE)
    ELSE Recognize(t)

InitTranscribe ==
    /\ pc = "ready"
    /\ arg \in Transcriptions
    /\ result = Transcribed("none", <<>>, FALSE)
    /\ heap = <<>>
    /\ segs = <<>>
    /\ turns = <<>>
    /\ ret = <<>>
    /\ before = [segs |-> <<>>, heap |-> <<>>]
    /\ qseg = NoRange
    /\ found = "none"
    /\ client = FALSE
    /\ completion = NotCalled
    /\ outcome = NoOutcome
    /\ IdleStore

Transcribe ==
    /\ pc = "ready"
    /\ result' = IF arg.use_fast THEN fast_transcribe(arg) ELSE audio_transcribe(arg)
    /\ pc' = "transcribed"
    /\ UNCHANGED <<dvars, svars, arg, stvars>>

NextTranscribe == Transcribe

SpecTranscribe == InitTranscribe /\ [][NextTranscribe]_vars

\* C18: transcribe called with an audio path that does not exist raises a
\* file-not-found error before the transcription model is invoked, in both
\* transcriber implementations.
C18_MissingFileRejectedFirst ==
    (pc = "transcribed" /\ ~arg.exists) =>
        /\ result.exc = "FileNotFoundError"
        /\ ~result.invoked

\* The fast transcriber refused a missing file whose transcription would
\* otherwise have gone to the model.
C18_Witness ==
    /\ pc = "transcribed"
    /\ ~arg.exists
    /\ arg.use_fast
    /\ ~arg.model.raises
    /\ result = Transcribed("FileNotFoundError", <<>>, FALSE)

\* The standard transcriber refused a missing file as well.
C18_WitnessStandard ==
    /\ pc = "transcribed"
    /\ ~arg.exists
    /\ ~arg.use_fast
    /\ result = Transcribed("FileNotFoundError", <<>>, FALSE)

----------------------------------------------------------------------------
(* The store under any sequence of save, get, list and delete calls.        *)
(* `result` holds the last call: its name, its id argument and what it      *)
(* returned (or the exception it raised).                                   *)

\* limit: int = 50
DefaultLimit == 50

\* Minutes a stored meeting may carry.
SomeMinutes == MeetingMinutes(<<1, 2>>, <<"d1">>, <<>>, <<>>, None)

\* The meetings handed to save_meeting and update_meeting, without an id or
\* with one: an earlier meeting with neither minutes nor audio, and a later
\* one with both.
StoreMeetings ==
    {Meeting(id, "Sync", 1, <<"Ann">>, None, <<>>, Null, None) :
        id \in {NoId} \cup Ids}
    \cup {Meeting(id, "Retro", 2, <<"Ann", "Bob">>, "plan", <<>>, SomeMinutes, "a.wav") :
        id \in {NoId} \cup Ids}

Call(op, id, val) == [op |-> op, id |-> id, val |-> val]

\* The ids of some rows by date, latest first (rows of one date by id).
RECURSIVE ByDateDesc(_, _)
ByDateDesc(table, S) ==
    IF S = {} THEN <<>>
    ELSE LET first == CHOOSE i \in S : \A j \in S :
                          \/ table[i].date > table[j].date
                          \/ table[i].date = table[j].date /\ i <= j
         IN  <<first>> \o ByDateDesc(table, S \ {first})

\* list_meetings(): the first `limit` rows by date, converted; [] when a
\* conversion raises.
list_meetings(table) ==
    LET ids == ByDateDesc(table, DOMAIN table)
        n == Min(DefaultLimit, Len(ids))
        made == [k \in 1..n |-> db_to_meeting(ids[k], table[ids[k]])]
    IN  IF \E k \in 1..n : made[k].exc # "none" THEN <<>>
        ELSE [k \in 1..n |-> made[k].val]

\* A delete that reports success without committing the removal.
DeleteUncommitted(table, fs, id, unlink_ok, commit_ok) ==
    IF id \notin DOMAIN table
    THEN [db |-> table, files |-> fs, val |-> FALSE]
    ELSE [db |-> table, files |-> fs \ {table[id].audio_path}, val |-> TRUE]

\* delete_meeting: no such row -> False; the audio file, if the row names one
\* that exists, is unlinked; the row is deleted and the deletion committed
\* -> True; any exception -> rollback, False.
delete_meeting(table, fs, id, unlink_ok, commit_ok) ==
    IF id \notin DOMAIN table
    THEN [db |-> table, files |-> fs, val |-> FALSE]
    ELSE LET path == table[id].audio_path
             present == path # None /\ path \in fs
         IN  IF present /\ ~unlink_ok
             THEN [db |-> table, files |-> fs, val |-> FALSE]
             ELSE LET left == IF present THEN fs \ {path} ELSE fs
                  IN  IF commit_ok
                      THEN [db |-> Remove(table, id), files |-> left, val |-> TRUE]
                      ELSE [db |-> table, files |-> left, val |-> FALSE]

\* update_meeting that saves whatever it is given, id or not.
UpdateAlwaysSaves(table, meeting, commit_ok) ==
    LET saved == save_meeting(table, meeting, commit_ok)
    IN  [db |-> saved.db, val |-> saved.exc = "none"]

\* update_meeting: False without an id; else save_meeting, True when it
\* returned and False when it raised.
update_meeting(table, meeting, commit_ok) ==
    IF meeting.id = NoId
    THEN [db |-> table, val |-> FALSE]
    ELSE LET saved == save_meeting(table, meeting, commit_ok)
         IN  [db |-> saved.db, val |-> saved.exc = "none"]

\* The arguments of a save or an update: the meeting, and whether the
\* database will commit.
Args(meeting, commit_ok) == [meeting |-> meeting, commit_ok |-> commit_ok]

\* The last call was neither a save nor an update.
NoArgs == Args(Null, TRUE)

\* The surroundings of a delete: whether Path.unlink will succeed, and
\* whether the database will commit.
DeleteArgs(unlink_ok, commit_ok) ==
    [meeting |-> Null, commit_ok |-> commit_ok, unlink_ok |-> unlink_ok]

InitStore ==
    /\ pc = "open"
    /\ db = <<>>
    /\ files \in {{}, {"a.wav"}}
    /\ session = "none"
    /\ arg = NoArgs
    /\ result = Call("init", NoId, FALSE)
    /\ heap = <<>>
    /\ segs = <<>>
    /\ turns = <<>>
    /\ ret = <<>>
    /\ before = [segs |-> <<>>, heap |-> <<>>]
    /\ qseg = NoRange
    /\ found = "none"
    /\ client = FALSE
    /\ completion = NotCalled
    /\ outcome = NoOutcome

\* save_meeting(m); a raised exception shows as the call's value.
SaveMeeting ==
    /\ pc = "open"
    /\ \E m \in StoreMeetings, commit_ok \in BOOLEAN :
         /\ m.id = NoId => NextId(db) <= MaxId
         /\ LET saved == save_meeting(db, m, commit_ok)
            IN  /\ db' = saved.db
                /\ result' = Call("save", m.id,
                                  IF saved.exc = "none" THEN saved.val ELSE NoId)
                /\ arg' = Args(m, commit_ok)
    /\ UNCHANGED <<pc, dvars, svars, files, session>>

UpdateMeeting ==
    /\ pc = "open"
    /\ \E m \in StoreMeetings, commit_ok \in BOOLEAN :
         LET u == update_meeting(db, m, commit_ok)
         IN  /\ db' = u.db
             /\ result' = Call("update", m.id, u.val)
             /\ arg' = Args(m, commit_ok)
    /\ UNCHANGED <<pc, dvars, svars, files, session>>

GetMeeting ==
    /\ pc = "open"
    /\ \E id \in Ids :
         result' = Call("get", id, get_meeting(db, id))
    /\ arg' = NoArgs
    /\ UNCHANGED <<pc, dvars, svars, stvars>>

ListMeetings ==
    /\ pc = "open"
    /\ result' = Call("list", NoId, list_meetings(db))
    /\ arg' = NoArgs
    /\ UNCHANGED <<pc, dvars, svars, stvars>>

DeleteMeeting ==
    /\ pc = "open"
    /\ \E id \in Ids, unlink_ok \in BOOLEAN, commit_ok \in BOOLEAN :
         LET d == delete_meeting(db, files, id, unlink_ok, commit_ok)
         IN  /\ db' = d.db
             /\ files' = d.files
             /\ result' = Call("delete", id, d.val)
             /\ arg' = DeleteArgs(unlink_ok, commit_ok)
    /\ UNCHANGED <<pc, dvars, svars, session>>

NextStore ==
    SaveMeeting \/ UpdateMeeting \/ GetMeeting \/ ListMeetings \/ DeleteMeeting

SpecStore == InitStore /\ [][NextStore]_vars

\* The meeting with this id is neither found by get_meeting nor listed.
Gone(table, id) ==
    /\ get_meeting(table, id) = Null
    /\ \A k \in 1..Len(list_meetings(table)) : list_meetings(table)[k].id # id

\* Right after delete_meeting(id) returned True the meeting is gone.
C20_GoneAfterDelete ==
    (result.op = "delete" /\ result.val) => Gone(db, result.id)

\* A meeting that is gone comes back only through a save that created a row
\* with its id: a call of save_meeting, or the one update_meeting makes.
C20_BackOnlyBySave ==
    \A id \in Ids :
        (Gone(db, id) /\ ~Gone(db', id))
            => \/ result'.op = "save" /\ result'.val = id
               \/ result'.op = "update" /\ result'.id = id /\ result'.val

\* delete_meeting of an id not in the store returns False and changes no row.
C20_DeleteOfMissing ==
    (result'.op = "delete" /\ result'.id \notin DOMAIN db)
        => (result'.val = FALSE /\ db' = db)

\* C20: after delete_meeting(id) returns True, get_meeting(id) returns None
\* and the meeting is not among list_meetings, until a later save creates a
\* record with that id; delete_meeting of an id that is not in the store
\* returns False and changes no record.
C20_DeleteRemoves ==
    /\ []C20_GoneAfterDelete
    /\ [][C20_BackOnlyBySave /\ C20_DeleteOfMissing]_vars

\* Meeting 1 was deleted while meeting 2 stays in the store.
C20_Witness ==
    /\ result.op = "delete"
    /\ result.id = 1
    /\ result.val
    /\ DOMAIN db = {2}
    /\ Len(list_meetings(db)) = 1

----------------------------------------------------------------------------
(* More claims about the store, checked under SpecStore. *)

\* The meeting found under id carries the fields of m.
HasFieldsOf(found_meeting, m) ==
    /\ found_meeting # Null
    /\ found_meeting.title = m.title
    /\ found_meeting.date = m.date
    /\ found_meeting.participants = m.participants
    /\ found_meeting.agenda = m.agenda
    /\ found_meeting.transcript = m.transcript
    /\ found_meeting.minutes = m.minutes
    /\ found_meeting.audio_path = m.audio_path

\* Every row but the one under id is as it was.
OthersUnchanged(id) ==
    \A j \in (DOMAIN db \cup DOMAIN db') \ {id} :
        j \in DOMAIN db /\ j \in DOMAIN db' /\ db'[j] = db[j]

C21_Step ==
    result'.op = "update" =>
        LET m == arg'.meeting
        IN  /\ m.id = NoId => (result'.val = FALSE /\ db' = db)
            /\ (m.id \in DOMAIN db /\ arg'.commit_ok) =>
                 /\ result'.val = TRUE
                 /\ HasFieldsOf(get_meeting(db', m.id), m)
                 /\ DOMAIN db' = DOMAIN db
                 /\ OthersUnchanged(m.id)
            /\ (m.id # NoId /\ ~arg'.commit_ok) => (result'.val = FALSE /\ db' = db)

\* C21: update_meeting(m) with m.id unset returns False and leaves the store
\* unchanged; with m.id the id of a stored record it returns True,
\* get_meeting(m.id) then returns m's fields, and the number of stored
\* records and all other records are unchanged.  (When the database fails to
\* commit, the call returns False and the store is unchanged.)
C21_UpdateContract == [][C21_Step]_vars

\* Record 1 was updated to the later meeting while record 2 stayed the
\* earlier one.
C21_Witness ==
    /\ result.op = "update"
    /\ result.id = 1
    /\ result.val
    /\ DOMAIN db = {1, 2}
    /\ get_meeting(db, 1).title = "Retro"
    /\ get_meeting(db, 2).title = "Sync"

C22_Step ==
    (result'.op = "save" /\ arg'.meeting.id = NoId /\ arg'.commit_ok) =>
        /\ result'.val > 0
        /\ result'.val \notin DOMAIN db
        /\ DOMAIN db' = DOMAIN db \cup {result'.val}
        /\ Cardinality(DOMAIN db') = Cardinality(DOMAIN db) + 1
        /\ OthersUnchanged(result'.val)
        /\ (result.op = "save" /\ arg = arg') =>
             /\ result'.val # result.val
             /\ {result.val, result'.val} \subseteq DOMAIN db'

\* C22: save_meeting of a meeting whose id is unset always inserts a new
\* record and returns a positive id distinct from the ids of all records
\* currently stored, so the record count grows by exactly one per call and
\* saving the same meeting object twice yields two records; no existing
\* record is changed.
C22_SaveInserts == [][C22_Step]_vars

\* The same meeting was saved twice in a row and is stored under 1 and 2.
C22_Witness ==
    /\ result.op = "save"
    /\ arg.meeting.id = NoId
    /\ result.val = 2
    /\ DOMAIN db = {1, 2}
    /\ db[1] = db[2]
    /\ db[2] = Row(arg.meeting)

----------------------------------------------------------------------------
(* The order of the parse attempts, checked under SpecSum. *)

Parses(text) == text = <<"J">>

Fences == {"F", "FJ"}

\* The inner content of the first fenced block of a response: what lies
\* between its first fence, of either kind, and the next fence (or the end).
FirstBlockContent(toks) ==
    LET open == Find(toks, Fences, 1)
        close == Find(toks, Fences, open + 1)
    IN  IF close # 0 THEN SubSeq(toks, open + 1, close - 1)
        ELSE SubSeq(toks, open + 1, Len(toks))

\* C23: parsing makes its attempts in a fixed order: the whole response;
\* only if that is not JSON, the inner content of the first fenced block
\* (```json or plain); if there is no fenced block, the raw text once more.
\* No attempt follows one that parsed, and when every attempt fails the
\* result is an empty MeetingMinutes.
C23_ThreeStages ==
    Returned =>
        LET toks == completion.response.tokens
            direct == Attempt("direct", toks)
        IN  /\ result =
                 IF Parses(toks) THEN <<direct>>
                 ELSE IF Find(toks, Fences, 1) # 0
                 THEN <<direct, Attempt("fenced", FirstBlockContent(toks))>>
                 ELSE <<direct, Attempt("raw", toks)>>
            /\ (\A i \in 1..Len(result) : ~Parses(result[i].text))
                 => outcome = Ok(EmptyMinutes)

----------------------------------------------------------------------------
(* MeetingSummarizer._format_transcript: the transcript as the backend     *)
(* sees it.  A line is the sequence of the pieces its f-string puts        *)
(* together; the lines are those of the list that "\n".join receives.      *)

MaxLines == 3

SerialSpeakers == {"Speaker 1", "Speaker 2"}

SerialTexts == {"hello", "we agree"}

\* 0 s, 65 s and 3665 s, in half seconds
SerialStarts == {0, 130, 7330}

\* Transcripts in time order.
SerialTranscripts ==
    {S \in SeqsUpTo([start : SerialStarts, text : SerialTexts, speaker : SerialSpeakers],
                    MaxLines) :
        \A i \in 1..(Len(S) - 1) : S[i].start <= S[i + 1].start}

\* f"\n[{timestamp}] {seg.speaker}:"
HeaderLine(timestamp, speaker) ==
    <<"\n", "[">> \o timestamp \o <<"]", " ", speaker, ":">>

\* f"  {seg.text}"
TextLine(text) == <<" ", " ", text>>

\* The loop over the segments from the i-th on.
RECURSIVE FormatLoop(_, _, _, _)
FormatLoop(segments, i, lines, current_speaker) ==
    IF i > Len(segments) THEN lines
    ELSE LET seg == segments[i]
             timestamp == SummarizerFormatTimestamp(seg.start)
         IN  IF seg.speaker # current_speaker
             THEN FormatLoop(segments, i + 1,
                             lines \o <<HeaderLine(timestamp, seg.speaker),
                                        TextLine(seg.text)>>,
                             seg.speaker)
             ELSE FormatLoop(segments, i + 1, Append(lines, TextLine(seg.text)),
                             current_speaker)

\* A serialization that compares with the first speaker heard, not the last.
RECURSIVE FormatLoopFirstSpeaker(_, _, _, _)
FormatLoopFirstSpeaker(segments, i, lines, current_speaker) ==
    IF i > Len(segments) THEN lines
    ELSE LET seg == segments[i]
             timestamp == SummarizerFormatTimestamp(seg.start)
         IN  IF seg.speaker # current_speaker
             THEN FormatLoopFirstSpeaker(segments, i + 1,
                             lines \o <<HeaderLine(timestamp, seg.speaker),
                                        TextLine(seg.text)>>,
                             IF current_speaker = None THEN seg.speaker
                             ELSE current_speaker)
             ELSE FormatLoopFirstSpeaker(segments, i + 1,
                             Append(lines, TextLine(seg.text)), current_speaker)

FormatTranscriptFirstSpeaker(segments) ==
    FormatLoopFirstSpeaker(segments, 1, <<>>, None)

\* _format_transcript: lines = [], current_speaker = None
format_transcript(segments) == FormatLoop(segments, 1, <<>>, None)

InitFormat ==
    /\ pc = "ready"
    /\ arg \in SerialTranscripts
    /\ result = <<>>
    /\ heap = <<>>
    /\ segs = <<>>
    /\ turns = <<>>
    /\ ret = <<>>
    /\ before = [segs |-> <<>>, heap |-> <<>>]
    /\ qseg = NoRange
    /\ found = "none"
    /\ client = FALSE
    /\ completion = NotCalled
    /\ outcome = NoOutcome
    /\ IdleStore

FormatTranscript ==
    /\ pc = "ready"
    /\ result' = format_transcript(arg)
    /\ pc' = "formatted"
    /\ UNCHANGED <<dvars, svars, arg, stvars>>

NextFormat == FormatTranscript

SpecFormat == InitFormat /\ [][NextFormat]_vars

\* The i-th segment opens a run of consecutive segments of one speaker.
RunStart(S, i) == i = 1 \/ S[i].speaker # S[i - 1].speaker

Runs(S, i) == Cardinality({j \in 1..i : RunStart(S, j)})

\* Where the text line of the i-th segment stands.
LineOf(S, i) == i + Runs(S, i)

\* C24: the serialization has, for the segments in input order, one text
\* line per segment with its full text, and a header line "[MM:SS] speaker:"
\* stamped with the segment's start exactly before the first segment and
\* before each segment whose speaker differs from the one before; there are
\* as many headers as maximal runs of one speaker, and no segment is dropped
\* or reordered.
C24_Serialization ==
    pc = "formatted" =>
        /\ Len(result) = Len(arg) + Runs(arg, Len(arg))
        /\ \A i \in 1..Len(arg) :
             /\ result[LineOf(arg, i)] = <<" ", " ", arg[i].text>>
             /\ RunStart(arg, i) =>
                  result[LineOf(arg, i) - 1] =
                      <<"\n", "[">> \o SummarizerFormatTimestamp(arg[i].start)
                      \o <<"]", " ", arg[i].speaker, ":">>

\* Three segments, two of one speaker and then another speaker at 61:05:
\* two headers and three text lines.
C24_Witness ==
    /\ pc = "formatted"
    /\ Len(arg) = 3
    /\ arg[1].speaker = arg[2].speaker
    /\ arg[2].speaker # arg[3].speaker
    /\ arg[3].start = 7330
    /\ Len(result) = 5

----------------------------------------------------------------------------
(* The returned sequence and the caller's, checked under SpecDiar. *)

\* C25: what apply_diarization returns is independent of its input for every
\* turn sequence, the empty one included: renaming the speaker of a returned
\* segment afterwards leaves every segment of the caller's input sequence as
\* it was.
C25_RenameLeavesInput ==
    pc = "renamed" =>
        /\ segs = before.segs
        /\ \A i \in 1..Len(segs) : heap[segs[i]] = before.heap[segs[i]]

----------------------------------------------------------------------------
(* Deleting and the audio file, checked under SpecStore. *)

\* The step is a delete_meeting of a meeting that is stored.
DeleteOfStored == result'.op = "delete" /\ result'.id \in DOMAIN db

C26_Step ==
    (DeleteOfStored /\ arg'.commit_ok) =>
        /\ result'.val
        /\ result'.id \notin DOMAIN db'
        /\ db' = Remove(db, result'.id)

\* C26: deleting a stored meeting removes its record, with a best-effort
\* attempt to remove its audio file: neither a missing audio file nor a
\* failure to remove it keeps the record from being deleted (the database
\* itself committing).
C26_RecordDeletedWhateverTheFile == [][C26_Step]_vars

C27_Step ==
    (DeleteOfStored /\ ~result'.val) => (db' = db /\ files' = files)

\* C27: delete_meeting is all-or-nothing: when it returns False for a stored
\* meeting, the record and the audio file are both still there, as before
\* the call.
C27_AllOrNothing == [][C27_Step]_vars

----------------------------------------------------------------------------
(* The wizard of src/pages/new_meeting.py as a whole.  pc is                *)
(* st.session_state.processing_stage; a step is one run of the page script  *)
(* that a user event or st.rerun() starts.  `result` holds the event of the *)
(* last step, `arg` two counts kept for the run since the last reset.       *)

\* MAX_FILE_SIZE_MB = 500 and MAX_FILE_SIZE_BYTES
MAX_FILE_SIZE_MB == 500

MAX_FILE_SIZE_BYTES == MAX_FILE_SIZE_MB * 1024 * 1024

MaxCalls == 2

MaxEntries == 2

\* The meetings the wizard's store takes.
MaxSaved == 1

\* stages = ['upload', 'transcribe', 'minutes', 'export']
stages == {"upload", "transcribe", "minutes", "export"}

\* What the file uploader holds: nothing, or a file of some size.
UploadedFile(size) == [size |-> size]

Uploads ==
    {Null} \cup {UploadedFile(n) : n \in {1, MAX_FILE_SIZE_BYTES, MAX_FILE_SIZE_BYTES + 1}}

Titles == {"", "Sync"}

\* An upload stage that takes a file of any size.
FileAcceptedAnySize(uploaded_file) == uploaded_file # Null

\* if uploaded_file: ... if uploaded_file.size > Config.MAX_FILE_SIZE_BYTES: return
FileAccepted(uploaded_file) ==
    uploaded_file # Null /\ uploaded_file.size <= MAX_FILE_SIZE_BYTES

\* The transcriptions of the temp file the wizard may see: the file is
\* there, faster-whisper is used (the checkbox's default), and the speech
\* model raises or hears at most one segment.
WizardTranscriptions ==
    {t \in Transcriptions : t.exists /\ t.use_fast /\ Len(t.model.segments) <= 1}

\* What summarize hands the minutes stage.
WizardMinutes == {EmptyMinutes, MeetingMinutes(Bullets(1), <<>>, <<>>, <<>>, None)}

\* What the user leaves in the summary text area.
WizardSummaryTexts == {Bullets(0), Bullets(2)}

WizardSession(metadata, transcript, minutes, audio, saved, done) ==
    [meeting_metadata |-> metadata, transcript_segments |-> transcript,
     meeting_minutes |-> minutes, temp_audio_path |-> audio,
     saved_meeting_id |-> saved, transcription_done |-> done]

Event(op, uploaded_file, title) ==
    [op |-> op, uploaded_file |-> uploaded_file, title |-> title]

Click(op) == Event(op, Null, "")

\* Per run: the calls of summarize, and the entries into the minutes stage
\* (counted up to MaxEntries).
Counts(summarize_calls, entries) ==
    [summarize_calls |-> summarize_calls, entries |-> entries]

\* A minutes stage that takes empty minutes for none.
NeedsMinutesWhenEmpty(s) ==
    s.meeting_minutes = Null \/ s.meeting_minutes = EmptyMinutes

\* if not st.session_state.meeting_minutes: None is falsy, a MeetingMinutes
\* object is truthy whatever it holds.
NeedsMinutes(s) == s.meeting_minutes = Null

InitWizard ==
    /\ pc = "upload"
    /\ session = WizardSession(Null, <<>>, Null, None, NoId, FALSE)
    /\ db = <<>>
    /\ files = {}
    /\ arg = Counts(0, 0)
    /\ result = Click("open")
    /\ heap = <<>>
    /\ segs = <<>>
    /\ turns = <<>>
    /\ ret = <<>>
    /\ before = [segs |-> <<>>, heap |-> <<>>]
    /\ qseg = NoRange
    /\ found = "none"
    /\ client = FALSE
    /\ completion = NotCalled
    /\ outcome = NoOutcome

\* show_upload_stage: an accepted file is written to a temp file; Process
\* Audio with a title stores the metadata and moves on.
ProcessAudio ==
    /\ pc = "upload"
    /\ \E uploaded_file \in Uploads, meeting_title \in Titles :
         /\ result' = Event("process_audio", uploaded_file, meeting_title)
         /\ IF ~FileAccepted(uploaded_file)
            THEN UNCHANGED <<pc, session, files>>
            ELSE /\ files' = files \cup {"tmp.wav"}
                 /\ IF meeting_title = ""
                    THEN /\ session' = [session EXCEPT !.temp_audio_path = "tmp.wav"]
                         /\ pc' = pc
                    ELSE /\ session' = [session EXCEPT
                                !.temp_audio_path = "tmp.wav",
                                !.meeting_metadata =
                                    [title |-> meeting_title, date |-> 1,
                                     participants |-> <<"Ann", "Bob">>,
                                     agenda |-> "plan"]]
                         /\ pc' = "transcribe"
    /\ UNCHANGED <<dvars, svars, arg, db>>

\* show_transcribe_stage while transcription_done is False: transcribe,
\* merge_transcript_and_diarization (which only labels the segments), store;
\* an exception leaves the stage as it is.
RunTranscription ==
    /\ pc = "transcribe"
    /\ session.temp_audio_path # None
    /\ ~session.transcription_done
    /\ \E t \in WizardTranscriptions, label \in TurnLabels :
         LET r == IF t.use_fast THEN fast_transcribe(t) ELSE audio_transcribe(t)
             segments == [i \in 1..Len(r.val) |-> [r.val[i] EXCEPT !.speaker = label]]
         IN  IF r.exc # "none"
             THEN UNCHANGED session
             ELSE session' = [session EXCEPT !.transcript_segments = segments,
                                             !.transcription_done = TRUE]
    /\ result' = Click("transcribe")
    /\ UNCHANGED <<pc, dvars, svars, arg, db, files>>

\* The buttons under `if st.session_state.transcript_segments:` are there
\* once the transcription is done and left a segment.
TranscriptShown ==
    /\ pc = "transcribe"
    /\ session.temp_audio_path # None
    /\ session.transcription_done
    /\ session.transcript_segments # <<>>

\* Apply Speaker Names, one speaker given a new name.
ApplySpeakerNames ==
    /\ TranscriptShown
    /\ \E i \in 1..Len(session.transcript_segments) :
         LET from == session.transcript_segments[i].speaker
         IN  session' = [session EXCEPT !.transcript_segments =
                 [k \in 1..Len(@) |->
                     IF @[k].speaker = from THEN [@[k] EXCEPT !.speaker = RenamedTo]
                     ELSE @[k]]]
    /\ result' = Click("rename")
    /\ UNCHANGED <<pc, dvars, svars, arg, db, files>>

\* Generate Minutes ->
GenerateMinutesButton ==
    /\ TranscriptShown
    /\ pc' = "minutes"
    /\ arg' = [arg EXCEPT !.entries = Min(@ + 1, MaxEntries)]
    /\ result' = Click("generate_minutes")
    /\ UNCHANGED <<dvars, svars, stvars>>

\* show_minutes_stage on entry: summarize is called when there are no
\* minutes; its failure gives MeetingMinutes().
RenderMinutes ==
    /\ pc = "minutes"
    /\ session.transcript_segments # <<>>
    /\ NeedsMinutes(session)
    /\ arg.summarize_calls < MaxCalls
    /\ \E m \in WizardMinutes :
         session' = [session EXCEPT !.meeting_minutes = m]
    /\ arg' = [arg EXCEPT !.summarize_calls = @ + 1]
    /\ result' = Click("summarize")
    /\ UNCHANGED <<pc, dvars, svars, db, files>>

\* The editor and its buttons are there once the stage holds minutes.
MinutesShown ==
    /\ pc = "minutes"
    /\ session.transcript_segments # <<>>
    /\ ~NeedsMinutes(session)

\* A rerun after the user changed the summary text area.
EditMinutes ==
    /\ MinutesShown
    /\ \E text \in WizardSummaryTexts :
         session' = [session EXCEPT
                        !.meeting_minutes = AssignSummary(session.meeting_minutes, text)]
    /\ result' = Click("edit")
    /\ UNCHANGED <<pc, dvars, svars, arg, db, files>>

\* <- Back to Transcript
BackToTranscript ==
    /\ MinutesShown
    /\ pc' = "transcribe"
    /\ result' = Click("back")
    /\ UNCHANGED <<dvars, svars, arg, stvars>>

\* Save & Export ->: an exception of save_meeting leaves the stage.
SaveAndExportButton ==
    /\ MinutesShown
    /\ NextId(db) <= MaxSaved
    /\ \E commit_ok \in BOOLEAN :
         LET md == session.meeting_metadata
             meeting == Meeting(NoId, md.title, md.date, md.participants, md.agenda,
                                session.transcript_segments,
                                session.meeting_minutes, session.temp_audio_path)
             saved == save_meeting(db, meeting, commit_ok)
         IN  /\ db' = saved.db
             /\ IF saved.exc # "none"
                THEN UNCHANGED <<pc, session>>
                ELSE /\ session' = [session EXCEPT !.saved_meeting_id = saved.val]
                     /\ pc' = "export"
    /\ result' = Click("save_export")
    /\ UNCHANGED <<dvars, svars, arg, files>>

\* Process Another Meeting: the reset.
ProcessAnotherMeeting ==
    /\ pc = "export"
    /\ pc' = "upload"
    /\ session' = [session EXCEPT !.transcript_segments = <<>>,
                                  !.meeting_minutes = Null,
                                  !.temp_audio_path = None,
                                  !.transcription_done = FALSE]
    /\ arg' = Counts(0, 0)
    /\ result' = Click("process_another")
    /\ UNCHANGED <<dvars, svars, db, files>>

NextWizard ==
    \/ ProcessAudio
    \/ RunTranscription
    \/ ApplySpeakerNames
    \/ GenerateMinutesButton
    \/ RenderMinutes
    \/ EditMinutes
    \/ BackToTranscript
    \/ SaveAndExportButton
    \/ ProcessAnotherMeeting

SpecWizard == InitWizard /\ [][NextWizard]_vars

----------------------------------------------------------------------------
(* Claims about the wizard, checked under SpecWizard. *)

C28_StageKnown == pc \in {"upload", "transcribe", "minutes", "export"}

C28_Step ==
    pc' # pc =>
        \/ /\ pc = "upload" /\ pc' = "transcribe"
           /\ result'.op = "process_audio"
           /\ result'.uploaded_file # Null
           /\ result'.uploaded_file.size <= 500 * 1024 * 1024
           /\ result'.title # ""
        \/ /\ pc = "transcribe" /\ pc' = "minutes"
           /\ session.transcript_segments # <<>>
        \/ pc = "minutes" /\ pc' = "transcribe"
        \/ /\ pc = "minutes" /\ pc' = "export"
           /\ session'.saved_meeting_id # NoId
           /\ session'.saved_meeting_id \in DOMAIN db' \ DOMAIN db
        \/ pc = "export" /\ pc' = "upload"

\* C28: processing_stage is always one of upload, transcribe, minutes and
\* export, and it changes only by these steps: upload -> transcribe (Process
\* Audio with an uploaded file within the size limit and a non-empty title),
\* transcribe -> minutes (only with a non-empty transcript), minutes ->
\* transcribe (back), minutes -> export (only after save_meeting returned an
\* id), export -> upload (reset).
C28_StageMachine == []C28_StageKnown /\ [][C28_Step]_vars

\* A second run after a reset, past the upload stage again, the first
\* run's meeting in the store.
C28_Witness ==
    /\ pc = "minutes"
    /\ session.saved_meeting_id = 1
    /\ 1 \in DOMAIN db
    /\ session.meeting_minutes = Null

\* Minutes once set change only in the editor, until the reset.
C29_Step ==
    (session.meeting_minutes # Null /\ result'.op \notin {"edit", "process_another"})
        => session'.meeting_minutes = session.meeting_minutes

\* C29: within one wizard run (between two resets) the summarizer is invoked
\* at most once: once meeting_minutes has been set, going back to the
\* transcript, renaming speakers and entering the minutes stage again never
\* calls summarize again, and the minutes generated or edited before are
\* kept.
C29_SummarizedOncePerRun ==
    /\ [](arg.summarize_calls <= 1)
    /\ [][C29_Step]_vars

\* The minutes stage entered a second time in one run, after a rename, with
\* the edited minutes of the first visit and one call of summarize.
C29_Witness ==
    /\ pc = "minutes"
    /\ arg.entries = 2
    /\ arg.summarize_calls = 1
    /\ session.transcript_segments[1].speaker = "Carol"
    /\ session.meeting_minutes # Null
    /\ session.meeting_minutes.summary = <<1, 2>>

\* C30: the wizard never gets stuck: in every reachable state of the
\* transcribe stage in which the transcription is done, the step to the
\* minutes stage is enabled, a transcription of zero segments included.
C30_MinutesStepEnabled ==
    (pc = "transcribe" /\ session.transcription_done) => ENABLED GenerateMinutesButton

====
